---- MODULE Spec2Model ----
(***************************************************************************)
(* Model of the glyph cache of vello_encoding (src/src/glyph_cache.rs):    *)
(* the prepared-text store, the encoding pool, the statistics counters,    *)
(* the session protocol (session, get_encoding, get_text_encoding) and     *)
(* maintain().                                                             *)
(*                                                                         *)
(* A session borrows the cache mutably (cache: &'a mut GlyphCache), so at  *)
(* most one session, or one pending session() future, exists at a time and *)
(* no other operation of the cache runs while it lives.                    *)
(*                                                                         *)
(* f32 values are modelled as integers in thousandths (16001 is 16.001).   *)
(* 64-bit hashes are modelled as small naturals, one per distinct input.   *)
(***************************************************************************)
EXTENDS Integers, Sequences, FiniteSets, TLC

\* ------------------------------------------------------------------ bounds

\* session() calls explored on top of the warm-up
MaxCalls == 2
\* get_encoding / get_text_encoding calls explored on top of the warm-up
MaxEmits == 2
\* maintain() calls explored
MaxMaintain == 1
\* session() calls explored that fail or are abandoned
MaxFailures == 1

\* ------------------------------------------------------- program constants

\* maintain(): the prepared-text cache is trimmed when it holds more than this
PreparedTrimAbove == 1000
\* maintain(): ... down to this many entries
PreparedKeep == 800
\* maintain(): the encoding pool is trimmed when it holds more than this
PoolTrimAbove == 500
\* maintain(): ... down to this many entries
PoolKeep == 400
\* generate_cache_key: size * 100.0
SizeScale == 100

\* ------------------------------------------------------------ input domains

FontA == <<1, 2, 3>>

FillNonZero == [kind |-> "Fill", fill |-> "NonZero", width |-> 0]
StrokeWide == [kind |-> "Stroke", fill |-> "none", width |-> 2000]
\* a stroke of width 0: the encoder has no style word for it
StrokeZero == [kind |-> "Stroke", fill |-> "none", width |-> 0]

Request(f, sz, st, t) == [font |-> f, size |-> sz, style |-> st, text |-> t]

\* the requests the callers of the model make: same key with another size in
\* the 0.01 bucket, same key with other stroke parameters, an empty text, a
\* text of zero width
Requests ==
    { Request(FontA, 16001, FillNonZero, "Hi"),
      Request(FontA, 16004, FillNonZero, "Hi"),
      Request(FontA, 16001, StrokeWide, "Hi"),
      Request(FontA, 16001, StrokeZero, "Hi"),
      Request(FontA, 16001, FillNonZero, ""),
      Request(FontA, 16001, FillNonZero, "\n") }

\* the request that the last call of a warm-up may have made
WarmRequest == Request(FontA, 16004, FillNonZero, "Hi")

\* what the external text system does during one session() call
EnvOutcomes == {"ok", "new_fails", "measure_fails"}

\* ------------------------------------------------------------------ hashing

\* DefaultHasher over the text: one value per distinct text
TextHash(text) ==
    CASE text = "" -> 1
      [] text = "Hi" -> 2
      [] text = "\n" -> 3
      [] OTHER -> 4

\* DefaultHasher over font.data: order-sensitive over the bytes
RECURSIVE HashBytes(_, _)
HashBytes(bytes, acc) ==
    IF bytes = <<>> THEN acc
    ELSE HashBytes(Tail(bytes), (acc * 31 + Head(bytes)) % 251)

FontHash(font) == HashBytes(font, 7)

\* DefaultHasher over mem::discriminant(style): the variant only
StyleHash(style) == IF style.kind = "Fill" THEN 0 ELSE 1

\* `x as u32` of an f32 given in thousandths: truncation toward zero,
\* saturating at 0 (the sizes of the model stay far below u32::MAX)
F32AsU32(milli) == IF milli <= 0 THEN 0 ELSE milli \div 1000

\* `x as i32` of an f32 given in thousandths: truncation toward zero
F32AsI32(milli) == IF milli >= 0 THEN milli \div 1000 ELSE -((-milli) \div 1000)

\* generate_cache_key that hashes the stroke width with the variant
generate_cache_key_full_style(text, font, size, style) ==
    [ text_hash |-> TextHash(text),
      font_hash |-> FontHash(font),
      size |-> F32AsU32(size * SizeScale),
      style_hash |-> StyleHash(style) + 2 * style.width ]

\* lines 241-270
generate_cache_key(text, font, size, style) ==
    [ text_hash |-> TextHash(text),
      font_hash |-> FontHash(font),
      size |-> F32AsU32(size * SizeScale),
      style_hash |-> StyleHash(style) ]

KeyOf(r) == generate_cache_key(r.text, r.font, r.size, r.style)

\* Hash of a TextCacheKey (derive(Hash)): the encoding pool's key
HashKey(k) ==
    ((k.text_hash * 251 + k.font_hash) * 2 + k.style_hash) * 16 + (k.size % 16)

\* Number of hash slots of a DashMap; iteration visits the entries by slot
SlotSpace == 2^24

\* Iteration position of a hash `h` in a DashMap whose RandomState is `seed`
Slot(h, seed) == (h + seed) % SlotSpace

\* --------------------------------------------------- the external text system

\* Number of glyph advances of a text, in half ems
TextAdvances(text) ==
    CASE text = "" -> 0
      [] text = "Hi" -> 3
      [] text = "\n" -> 0
      [] OTHER -> 2

\* Number of lines the text system lays out for a text
TextLines(text) ==
    CASE text = "" -> 0
      [] text = "\n" -> 2
      [] OTHER -> 1

\* UnifiedTextSystem::measure_text(text, attrs): the content box of `text`
\* at Metrics::relative(size, 1.0), a function of the text and the size
measure_text(text, size) ==
    [ content_width |-> (TextAdvances(text) * size) \div 2,
      content_height |-> TextLines(text) * size ]

\* -------------------------------------------------------------- PreparedText

\* NewPreparedText that keeps a default measurement
NewPreparedText_unmeasured(id, measurement) ==
    [ id |-> id,
      measurement |-> [content_width |-> 0, content_height |-> 0],
      buffer |-> <<>>,
      text_area_config |->
        [ position |-> <<0, 0>>,
          scale |-> 1000,
          bounds |-> [ left |-> 0, top |-> 0,
                       right |-> F32AsI32(measurement.content_width),
                       bottom |-> F32AsI32(measurement.content_height) ] ],
      preparation_time |-> 0 ]

\* The PreparedText that session() assembles from a measurement; `id` is the
\* identity of the Arc allocation
NewPreparedText(id, measurement) ==
    [ id |-> id,
      measurement |-> measurement,
      buffer |-> <<>>,
      text_area_config |->
        [ position |-> <<0, 0>>,
          scale |-> 1000,
          bounds |-> [ left |-> 0, top |-> 0,
                       right |-> F32AsI32(measurement.content_width),
                       bottom |-> F32AsI32(measurement.content_height) ] ],
      preparation_time |-> 0 ]

\* ------------------------------------------------------------------ warm-up
\* The model starts from the cache after construction, or from the cache
\* after a run of distinct requests (text i of font A at size 16, filled):
\* the entries such a run leaves behind are the warm entries.

WarmKey(i) ==
    [ text_hash |-> 100 + i, font_hash |-> FontHash(FontA),
      size |-> F32AsU32(16000 * SizeScale), style_hash |-> 0 ]

WarmMeasurement == measure_text("Hi", 16000)

\* allocations 2i-1 and 2i are the PreparedText and the pooled Encoding of
\* warm request i
WarmPrepared(i) == NewPreparedText(2 * i - 1, WarmMeasurement)

WarmPooled(i) == 2 * i

\* the entry of warm request i in the store, or in the pool
WarmEntry(which, i) ==
    IF which = "store"
    THEN [key |-> WarmKey(i), hash |-> HashKey(WarmKey(i)), val |-> WarmPrepared(i)]
    ELSE [key |-> HashKey(WarmKey(i)), hash |-> HashKey(WarmKey(i)), val |-> WarmPooled(i)]

\* the warm request whose entry has hash `h`, 0 when there is none
WarmIndexOfHash(h) ==
    LET i == h \div (251 * 2 * 16) - 100
    IN IF i >= 1 /\ HashKey(WarmKey(i)) = h THEN i ELSE 0

\* the warm request whose entry has key `key`, 0 when there is none
WarmIndex(which, key) ==
    IF which = "store"
    THEN (IF key.text_hash > 100 /\ key = WarmKey(key.text_hash - 100)
          THEN key.text_hash - 100 ELSE 0)
    ELSE WarmIndexOfHash(key)

\* ------------------------------------------------------------------- DashMap
\* A map is written as the sequence of its entries [key, hash, val] in
\* iteration order: the order of the hash slots, which the RandomState of the
\* map decides. A run of consecutive warm entries lo..hi is written as one
\* item of the sequence, [run |-> TRUE, lo, hi]; it stands for the entries
\* WarmEntry(which, lo), ..., WarmEntry(which, hi).

EntryItem(key, hash, val) ==
    [run |-> FALSE, key |-> key, hash |-> hash, val |-> val, lo |-> 0, hi |-> 0]

RunItem(which, lo, hi) ==
    [run |-> TRUE, key |-> WarmEntry(which, lo).key, hash |-> WarmEntry(which, lo).hash,
     val |-> WarmEntry(which, lo).val, lo |-> lo, hi |-> hi]

ItemLen(it) == IF it.run THEN it.hi - it.lo + 1 ELSE 1

RECURSIVE SumLen(_)
SumLen(m) == IF m = <<>> THEN 0 ELSE ItemLen(Head(m)) + SumLen(Tail(m))

\* DashMap::len
MapLen(m) == SumLen(m)

ItemHas(which, it, key) ==
    IF it.run
    THEN LET i == WarmIndex(which, key) IN i >= it.lo /\ i <= it.hi
    ELSE it.key = key

\* DashMap::get(key).is_some()
MapHas(which, m, key) == \E j \in 1..Len(m) : ItemHas(which, m[j], key)

\* the value DashMap::get(key) yields
MapGet(which, m, key) ==
    LET it == m[CHOOSE j \in 1..Len(m) : ItemHas(which, m[j], key)]
    IN IF it.run THEN WarmEntry(which, WarmIndex(which, key)).val ELSE it.val

\* the values of the entries that are not warm
MapOwnValues(m) == {m[j].val : j \in {i \in 1..Len(m) : ~m[i].run}}

\* number of entries of the item that iteration visits before slot `s`
ItemBefore(which, it, s, seed) ==
    IF ~it.run THEN (IF Slot(it.hash, seed) < s THEN 1 ELSE 0)
    ELSE LET first == Slot(HashKey(WarmKey(it.lo)), seed)
             final == Slot(HashKey(WarmKey(it.hi)), seed)
         IN IF first <= final /\ final < s THEN ItemLen(it)
            ELSE IF first <= final /\ s <= first THEN 0
            ELSE Cardinality({i \in it.lo..it.hi : Slot(HashKey(WarmKey(i)), seed) < s})

\* the item cut in two after its first `k` entries
ItemSplit(which, it, k) ==
    IF k = 0 THEN <<it>>
    ELSE IF k = ItemLen(it) THEN <<it>>
    ELSE <<RunItem(which, it.lo, it.lo + k - 1), RunItem(which, it.lo + k, it.hi)>>

\* DashMap::insert: replaces the value of a present key, else adds the entry
\* at the place its hash slot has in the iteration order
MapInsert(which, m, key, hash, val, seed) ==
    IF \E j \in 1..Len(m) : ~m[j].run /\ m[j].key = key
    THEN [j \in 1..Len(m) |->
            IF ~m[j].run /\ m[j].key = key THEN [m[j] EXCEPT !.val = val] ELSE m[j]]
    ELSE LET s == Slot(hash, seed)
             \* the items wholly before the new entry
             full == {j \in 1..Len(m) : ItemBefore(which, m[j], s, seed) = ItemLen(m[j])}
             n == Cardinality(full)
             cut == IF n < Len(m) THEN ItemBefore(which, m[n + 1], s, seed) ELSE 0
         IN IF cut = 0
            THEN SubSeq(m, 1, n) \o <<EntryItem(key, hash, val)>> \o SubSeq(m, n + 1, Len(m))
            ELSE LET parts == ItemSplit(which, m[n + 1], cut)
                 IN SubSeq(m, 1, n) \o <<parts[1], EntryItem(key, hash, val), parts[2]>>
                      \o SubSeq(m, n + 2, Len(m))

\* The keys that iter().take(n) collects are written as the map that holds
\* the first `n` entries: a key is collected when that map has it.

\* the first `n` entries of the item
ItemTake(which, it, n) ==
    IF n <= 0 THEN <<>>
    ELSE IF it.run /\ n < ItemLen(it) THEN <<RunItem(which, it.lo, it.lo + n - 1)>>
    ELSE <<it>>

\* iter().take(n).map(|entry| entry.key()).collect()
RECURSIVE TakeKeys(_, _, _)
TakeKeys(which, m, n) ==
    IF m = <<>> \/ n <= 0 THEN <<>>
    ELSE ItemTake(which, Head(m), n) \o TakeKeys(which, Tail(m), n - ItemLen(Head(m)))

\* what is left of the run lo..hi without the warm entries a..b
RunWithout(which, lo, hi, a, b) ==
    (IF lo < a THEN <<RunItem(which, lo, IF hi < a THEN hi ELSE a - 1)>> ELSE <<>>)
      \o (IF hi > b THEN <<RunItem(which, IF lo > b THEN lo ELSE b + 1, hi)>> ELSE <<>>)

\* what DashMap::remove of the key(s) of the item `gone` leaves of the map
RECURSIVE MapRemoveItem(_, _, _)
MapRemoveItem(which, m, gone) ==
    IF m = <<>> THEN <<>>
    ELSE LET it == Head(m)
             rest == MapRemoveItem(which, Tail(m), gone)
             a == IF gone.run THEN gone.lo ELSE WarmIndex(which, gone.key)
             b == IF gone.run THEN gone.hi ELSE WarmIndex(which, gone.key)
         IN IF it.run THEN RunWithout(which, it.lo, it.hi, a, b) \o rest
            ELSE IF ItemHas(which, gone, it.key) THEN rest
            ELSE <<it>> \o rest

\* for key in to_remove { map.remove(&key); }
RECURSIVE MapRemoveAll(_, _, _)
MapRemoveAll(which, m, to_remove) ==
    IF to_remove = <<>> THEN m
    ELSE MapRemoveAll(which, MapRemoveItem(which, m, Head(to_remove)), Tail(to_remove))

\* ------------------------------------------------------------------ Encoding
\* Encoding and PathEncoder live in encoding.rs and path.rs, which are not
\* among the sources; they are modelled from the specification: an Encoding
\* is its style stream, its path tag stream and its path data stream, and the
\* stream offsets are the lengths of the streams.

EncodingNew ==
    [ path_tags |-> <<>>, path_data |-> <<>>, styles |-> <<>>,
      n_paths |-> 0, n_path_segments |-> 0 ]

reset(enc) == EncodingNew

stream_offsets(enc) ==
    [ path_tags |-> Len(enc.path_tags),
      path_data |-> Len(enc.path_data),
      styles |-> Len(enc.styles) ]

encode_style(enc, style) ==
    IF enc.styles # <<>> /\ enc.styles[Len(enc.styles)] = style
    THEN enc
    ELSE [enc EXCEPT !.path_tags = Append(@, "STYLE"), !.styles = Append(@, style)]

encode_fill_style(enc, fill) == encode_style(enc, [kind |-> "Fill", fill |-> fill, width |-> 0])

\* whether the encoder has a style word for the stroke
StrokeRepresentable(stroke) == stroke.width # 0

\* encode_stroke_style: <<encoding, accepted>>
encode_stroke_style(enc, stroke) ==
    IF StrokeRepresentable(stroke)
    THEN <<encode_style(enc, [kind |-> "Stroke", fill |-> "none", width |-> stroke.width]), TRUE>>
    ELSE <<enc, FALSE>>

\* PathEncoder: the cursor over the path streams of an Encoding
encode_path(enc, is_fill) ==
    [ enc |-> enc, is_fill |-> is_fill, state |-> "Start",
      first_point |-> <<0, 0>>, n_encoded_segments |-> 0 ]

DropPoint(data) == SubSeq(data, 1, Len(data) - 2)

LastPoint(data) == <<data[Len(data) - 1], data[Len(data)]>>

path_close(p) ==
    CASE p.state = "Start" -> p
      [] p.state = "MoveTo" ->
           [p EXCEPT !.enc.path_data = DropPoint(@), !.state = "Start"]
      [] OTHER ->
           IF LastPoint(p.enc.path_data) # p.first_point
           THEN [p EXCEPT !.enc.path_data = @ \o p.first_point,
                          !.enc.path_tags = Append(@, "LINE_TO"),
                          !.n_encoded_segments = @ + 1,
                          !.state = "Start"]
           ELSE [p EXCEPT !.state = "Start"]

path_move_to(p, x, y) ==
    LET q == IF p.is_fill THEN path_close(p) ELSE p
        r == IF q.state = "MoveTo" THEN [q EXCEPT !.enc.path_data = DropPoint(@)] ELSE q
    IN [r EXCEPT !.first_point = <<x, y>>,
                 !.enc.path_data = @ \o <<x, y>>,
                 !.state = "MoveTo"]

\* a segment of length zero is dropped
path_line_to(p, x, y) ==
    LET q == IF p.state = "Start" THEN path_move_to(p, p.first_point[1], p.first_point[2]) ELSE p
    IN IF p.state = "Start" /\ p.n_encoded_segments = 0 THEN path_move_to(p, x, y)
       ELSE IF LastPoint(q.enc.path_data) = <<x, y>> THEN q
       ELSE [q EXCEPT !.enc.path_data = @ \o <<x, y>>,
                      !.enc.path_tags = Append(@, "LINE_TO"),
                      !.n_encoded_segments = @ + 1,
                      !.state = "NonemptySubpath"]

\* finish(insert_path_marker): <<encoding, number of segments encoded>>
path_finish(p, insert_path_marker) ==
    LET q == IF p.is_fill THEN path_close(p) ELSE p
        r == IF q.state = "MoveTo" THEN [q EXCEPT !.enc.path_data = DropPoint(@)] ELSE q
        e == r.enc
        done == IF r.n_encoded_segments # 0
                THEN [e EXCEPT !.n_path_segments = @ + r.n_encoded_segments,
                               !.n_paths = IF insert_path_marker THEN @ + 1 ELSE @,
                               !.path_tags = IF insert_path_marker THEN Append(@, "PATH") ELSE @]
                ELSE e
    IN <<done, r.n_encoded_segments>>

\* ---------------------------------------------------------------- the state

VARIABLES
    prepared_text_cache,  \* DashMap<TextCacheKey, Arc<PreparedText>>
    encoding_pool,        \* DashMap<u64, Arc<Encoding>>: the values are pointers
    heap,                 \* the Encoding each live Arc<Encoding> points to
    performance_monitor,  \* AtomicU64
    cache_hits,           \* stats.cache_hits
    cache_misses,         \* stats.cache_misses
    text_preparations,    \* stats.text_preparations
    encoding_reuses,      \* stats.encoding_reuses
    seeds,                \* the RandomState of the two maps
    session,              \* the pending session() future (with what the text
                          \* system will do to it) or the live session
    next_id,              \* the next fresh allocation
    last,                 \* what the last operation returned to the caller
    calls,                \* history: session() calls made
    emits,                \* history: get_encoding and get_text_encoding calls made
    measure_calls,        \* history: measure_text invocations
    warmup,               \* history: session() calls made before the first state
    warm_emits,           \* history: emissions made before the first state
    first_emit,           \* history: the first emission of each request
    live_requested,       \* history: keys requested and not trimmed since
    origin,               \* history: the request that filled each store entry
    pool_inserts,         \* history: encoding_pool.insert calls made
    evicted,              \* history: keys maintain() removed and no call put back
    ended,                \* history: session() calls that returned an error, and
                          \* session() futures dropped while pending
    kept                  \* the first Arc<Encoding> that get_text_encoding returned,
                          \* which the caller keeps, with the Encoding it held then

vars ==
    << prepared_text_cache, encoding_pool, heap, performance_monitor, cache_hits,
       cache_misses, text_preparations, encoding_reuses, seeds, session, next_id,
       last, calls, emits, measure_calls, warmup, warm_emits, first_emit, live_requested, origin,
       pool_inserts, evicted, ended, kept >>

stats_vars == <<cache_hits, cache_misses, text_preparations, encoding_reuses>>

history_vars ==
    <<first_emit, live_requested, origin, warm_emits, pool_inserts, evicted, ended,
      kept>>

NoRequest == Request(<<>>, 0, FillNonZero, "none")

NoPrepared == NewPreparedText(0, [content_width |-> 0, content_height |-> 0])

NoOffsets == [path_tags |-> 0, path_data |-> 0, styles |-> 0]

NoSession ==
    [ pc |-> "none", req |-> NoRequest, env |-> "ok",
      cache_key |-> KeyOf(NoRequest), prepared_text |-> NoPrepared, hit |-> FALSE,
      was_live |-> FALSE, was_requested |-> FALSE, origin_at_call |-> NoRequest,
      preparations_at_call |-> 0, measure_calls_at_call |-> 0,
      hits_at_call |-> 0, misses_at_call |-> 0, reuses_at_call |-> 0,
      after_failure |-> FALSE ]

\* what an operation hands back; the fields an operation does not set stay at
\* these defaults. `enc` is the Arc<Encoding> the caller holds (0: none): the
\* one the latest get_encoding or get_text_encoding returned.
NothingReturned ==
    [ op |-> "new", err |-> FALSE, req |-> NoRequest, env |-> "ok", hit |-> FALSE,
      enc |-> 0, offsets |-> NoOffsets, is_fill |-> FALSE, path_segments |-> 0,
      pool_hit |-> FALSE, pooled |-> 0, repeat |-> FALSE, reuses_before |-> 0,
      store_before |-> 0, pool_before |-> 0, value |-> <<0, 0, 0, 0>> ]

Returned(op) == [NothingReturned EXCEPT !.op = op, !.enc = last.enc]

NoEmit == [some |-> FALSE, enc |-> EncodingNew, offsets |-> NoOffsets]

NothingKept == [ptr |-> 0, key |-> KeyOf(NoRequest), value |-> EncodingNew]

RequestKeys == {KeyOf(r) : r \in Requests}

\* ---------------------------------------------------------- the first state

WarmMap(which, n) == IF n = 0 THEN <<>> ELSE <<RunItem(which, 1, n)>>

\* seeds under which the keys of Requests are visited first, or last
Seeds == {0, SlotSpace - HashKey(WarmKey(1))}

\* <<requests of warm keys opened, requests among them also emitted, the
\* request opened after them (NoRequest: none)>>
WarmUps ==
    { <<0, 0, NoRequest>>,
      <<PreparedTrimAbove, PoolTrimAbove, NoRequest>>,
      <<PreparedKeep, PoolTrimAbove, NoRequest>>,
      <<PreparedTrimAbove, PoolTrimAbove, WarmRequest>> }

Init ==
    \E w \in WarmUps, s \in Seeds :
      LET m == w[2]
          q == w[3]
          \* the session() calls of the warm-up: each one a miss that was prepared
          n == IF q = NoRequest THEN w[1] ELSE w[1] + 1
      IN
        /\ n = 0 => s = 0
        /\ warmup = n
        /\ seeds = [store |-> s, pool |-> s]
        /\ prepared_text_cache =
             IF q = NoRequest THEN WarmMap("store", n)
             ELSE MapInsert("store", WarmMap("store", w[1]), KeyOf(q), HashKey(KeyOf(q)),
                            NewPreparedText(2 * n - 1, measure_text(q.text, q.size)), s)
        /\ encoding_pool = WarmMap("pool", m)
        /\ heap = [ptr \in {} |-> EncodingNew]
        /\ next_id = 2 * n + 1
        /\ performance_monitor = 0
        /\ cache_hits = 0
        /\ cache_misses = n
        /\ text_preparations = n
        /\ encoding_reuses = 0
        /\ session = NoSession
        /\ last = NothingReturned
        /\ calls = n
        /\ emits = m
        /\ warm_emits = m
        /\ measure_calls = n
        /\ first_emit = [r \in Requests |-> NoEmit]
        /\ live_requested = {}
        /\ origin = [k \in RequestKeys |-> IF q # NoRequest /\ k = KeyOf(q) THEN q ELSE NoRequest]
        /\ pool_inserts = m
        /\ evicted = [store |-> {}, pool |-> {}]
        /\ ended = [errors |-> 0, abandoned |-> 0]
        /\ kept = NothingKept

\* ---------------------------------------------------------------- session()

session_budget == calls < warmup + MaxCalls

\* the session() calls so far that returned an error or were abandoned
failed_calls ==
    calls - cache_hits - text_preparations
      - (IF session.pc \in {"new", "measure"} THEN 1 ELSE 0)

failure_budget == failed_calls < MaxFailures

\* session_lookup that never finds the key
session_lookup_blind(store, key, hits, misses) ==
    [ cached |-> FALSE, prepared_text |-> NoPrepared,
      cache_hits |-> hits, cache_misses |-> misses + 1 ]

\* session_lookup without the miss counter
session_lookup_uncounted(store, key, hits, misses) ==
    IF MapHas("store", store, key)
    THEN [ cached |-> TRUE, prepared_text |-> MapGet("store", store, key),
           cache_hits |-> hits + 1, cache_misses |-> misses ]
    ELSE [ cached |-> FALSE, prepared_text |-> NoPrepared,
           cache_hits |-> hits, cache_misses |-> misses ]

\* session_lookup that counts a hit as a miss too
session_lookup_counts_both(store, key, hits, misses) ==
    IF MapHas("store", store, key)
    THEN [ cached |-> TRUE, prepared_text |-> MapGet("store", store, key),
           cache_hits |-> hits + 1, cache_misses |-> misses + 1 ]
    ELSE [ cached |-> FALSE, prepared_text |-> NoPrepared,
           cache_hits |-> hits, cache_misses |-> misses + 1 ]

\* session_lookup that hands out a copy of the stored record
session_lookup_copy(store, key, hits, misses) ==
    IF MapHas("store", store, key)
    THEN [ cached |-> TRUE,
           prepared_text |-> [MapGet("store", store, key) EXCEPT !.id = 0],
           cache_hits |-> hits + 1, cache_misses |-> misses ]
    ELSE [ cached |-> FALSE, prepared_text |-> NoPrepared,
           cache_hits |-> hits, cache_misses |-> misses + 1 ]

\* lines 187-191: the lookup in the store and the counter it bumps
session_lookup(store, key, hits, misses) ==
    IF MapHas("store", store, key)
    THEN [ cached |-> TRUE, prepared_text |-> MapGet("store", store, key),
           cache_hits |-> hits + 1, cache_misses |-> misses ]
    ELSE [ cached |-> FALSE, prepared_text |-> NoPrepared,
           cache_hits |-> hits, cache_misses |-> misses + 1 ]

\* the session() future as its first poll leaves it
SessionAt(pc, r, env, cache_key, found) ==
    [ NoSession EXCEPT
        !.pc = pc, !.req = r, !.env = env, !.cache_key = cache_key,
        !.prepared_text = found.prepared_text,
        !.hit = MapHas("store", prepared_text_cache, cache_key),
        !.was_live = cache_key \in live_requested,
        !.was_requested = \E q \in Requests : first_emit[q].some /\ KeyOf(q) = cache_key,
        !.origin_at_call = origin[cache_key],
        !.preparations_at_call = text_preparations,
        !.measure_calls_at_call = measure_calls,
        !.hits_at_call = cache_hits,
        !.misses_at_call = cache_misses,
        !.reuses_at_call = encoding_reuses,
        !.after_failure = (last.op = "session" /\ last.err /\ KeyOf(last.req) = cache_key) ]

\* lines 184-189 and 229-237: the key is in the store; the call returns the
\* session without passing a suspension point
session_hit(r, env) ==
    LET cache_key == generate_cache_key(r.text, r.font, r.size, r.style)
        found == session_lookup(prepared_text_cache, cache_key, cache_hits, cache_misses)
    IN
    /\ session.pc = "none"
    /\ session_budget
    /\ found.cached
    /\ cache_hits' = found.cache_hits
    /\ cache_misses' = found.cache_misses
    /\ session' = SessionAt("open", r, "ok", cache_key, found)
    /\ last' = [Returned("session") EXCEPT
                  !.req = r, !.env = env,
                  !.hit = MapHas("store", prepared_text_cache, cache_key)]
    /\ calls' = calls + 1
    /\ UNCHANGED << prepared_text_cache, encoding_pool, heap, performance_monitor,
                    text_preparations, encoding_reuses, seeds, next_id,
                    measure_calls, warmup, emits, history_vars >>

\* session_miss on a cache that another call or session may be using
session_miss_shared(r, env) ==
    LET cache_key == generate_cache_key(r.text, r.font, r.size, r.style)
        found == session_lookup(prepared_text_cache, cache_key, cache_hits, cache_misses)
    IN
    /\ session_budget
    /\ env # "ok" => failure_budget
    /\ ~found.cached
    /\ cache_hits' = found.cache_hits
    /\ cache_misses' = found.cache_misses
    /\ session' = SessionAt("new", r, env, cache_key, found)
    /\ last' = [Returned("pending") EXCEPT
                  !.req = r, !.env = env,
                  !.hit = MapHas("store", prepared_text_cache, cache_key)]
    /\ calls' = calls + 1
    /\ UNCHANGED << prepared_text_cache, encoding_pool, heap, performance_monitor,
                    text_preparations, encoding_reuses, seeds, next_id,
                    measure_calls, warmup, emits, history_vars >>

\* lines 184-200: the key is not in the store; the future suspends in
\* UnifiedTextSystem::new(..).await
session_miss(r, env) ==
    LET cache_key == generate_cache_key(r.text, r.font, r.size, r.style)
        found == session_lookup(prepared_text_cache, cache_key, cache_hits, cache_misses)
    IN
    /\ session.pc = "none"
    /\ session_budget
    /\ env # "ok" => failure_budget
    /\ ~found.cached
    /\ cache_hits' = found.cache_hits
    /\ cache_misses' = found.cache_misses
    /\ session' = SessionAt("new", r, env, cache_key, found)
    /\ last' = [Returned("pending") EXCEPT
                  !.req = r, !.env = env,
                  !.hit = MapHas("store", prepared_text_cache, cache_key)]
    /\ calls' = calls + 1
    /\ UNCHANGED << prepared_text_cache, encoding_pool, heap, performance_monitor,
                    text_preparations, encoding_reuses, seeds, next_id,
                    measure_calls, warmup, emits, history_vars >>

\* lines 194-200: `?` on the result of UnifiedTextSystem::new
text_system_new ==
    /\ session.pc = "new"
    /\ IF session.env = "new_fails"
       THEN /\ session' = NoSession
            /\ last' = [Returned("session") EXCEPT
                          !.req = session.req, !.env = session.env,
                          !.hit = session.hit, !.err = TRUE]
            /\ ended' = [ended EXCEPT !.errors = @ + 1]
       ELSE /\ session' = [session EXCEPT !.pc = "measure"]
            /\ last' = last
            /\ ended' = ended
    /\ UNCHANGED << prepared_text_cache, encoding_pool, heap, performance_monitor,
                    stats_vars, seeds, next_id, calls, emits, measure_calls, warmup,
                    first_emit, live_requested, origin, warm_emits, pool_inserts,
                    evicted, kept >>

\* text_measured that stores the record of a default measurement when
\* measure_text fails
text_measured_stores_default ==
    /\ session.pc = "measure"
    /\ measure_calls' = measure_calls + 1
    /\ IF session.env = "measure_fails"
       THEN /\ session' = NoSession
            /\ last' = [Returned("session") EXCEPT
                          !.req = session.req, !.env = session.env,
                          !.hit = session.hit, !.err = TRUE]
            /\ prepared_text_cache' =
                 MapInsert("store", prepared_text_cache, session.cache_key,
                           HashKey(session.cache_key),
                           NewPreparedText(next_id, [content_width |-> 0, content_height |-> 0]),
                           seeds.store)
            /\ next_id' = next_id + 1
            /\ ended' = [ended EXCEPT !.errors = @ + 1]
            /\ UNCHANGED << text_preparations, origin, evicted >>
       ELSE LET measurement == measure_text(session.req.text, session.req.size)
                prepared == NewPreparedText(next_id, measurement)
            IN
            /\ prepared_text_cache' =
                 MapInsert("store", prepared_text_cache, session.cache_key,
                           HashKey(session.cache_key), prepared, seeds.store)
            /\ text_preparations' = text_preparations + 1
            /\ next_id' = next_id + 1
            /\ session' = [session EXCEPT !.pc = "open", !.env = "ok",
                                           !.prepared_text = prepared]
            /\ last' = [Returned("session") EXCEPT
                          !.req = session.req, !.env = session.env,
                          !.hit = session.hit]
            /\ origin' = [origin EXCEPT ![session.cache_key] = session.req]
            /\ evicted' = [evicted EXCEPT !.store = @ \ {session.cache_key}]
            /\ ended' = ended
    /\ UNCHANGED << encoding_pool, heap, performance_monitor, cache_hits, cache_misses,
                    encoding_reuses, seeds, calls, emits, warmup, warm_emits,
                    first_emit, live_requested, pool_inserts, kept >>

\* text_measured that does not count the preparation
text_measured_uncounted ==
    /\ session.pc = "measure"
    /\ measure_calls' = measure_calls + 1
    /\ IF session.env = "measure_fails"
       THEN /\ session' = NoSession
            /\ last' = [Returned("session") EXCEPT
                          !.req = session.req, !.env = session.env,
                          !.hit = session.hit, !.err = TRUE]
            /\ ended' = [ended EXCEPT !.errors = @ + 1]
            /\ UNCHANGED << prepared_text_cache, text_preparations, next_id, origin,
                            evicted >>
       ELSE LET measurement == measure_text(session.req.text, session.req.size)
                prepared == NewPreparedText(next_id, measurement)
            IN
            /\ prepared_text_cache' =
                 MapInsert("store", prepared_text_cache, session.cache_key,
                           HashKey(session.cache_key), prepared, seeds.store)
            /\ text_preparations' = text_preparations
            /\ next_id' = next_id + 1
            /\ session' = [session EXCEPT !.pc = "open", !.env = "ok",
                                           !.prepared_text = prepared]
            /\ last' = [Returned("session") EXCEPT
                          !.req = session.req, !.env = session.env,
                          !.hit = session.hit]
            /\ origin' = [origin EXCEPT ![session.cache_key] = session.req]
            /\ evicted' = [evicted EXCEPT !.store = @ \ {session.cache_key}]
            /\ ended' = ended
    /\ UNCHANGED << encoding_pool, heap, performance_monitor, cache_hits, cache_misses,
                    encoding_reuses, seeds, calls, emits, warmup, warm_emits,
                    first_emit, live_requested, pool_inserts, kept >>

\* lines 201-237: `?` on the result of measure_text, then the PreparedText is
\* assembled, inserted and counted, and the session is returned
text_measured ==
    /\ session.pc = "measure"
    /\ measure_calls' = measure_calls + 1
    /\ IF session.env = "measure_fails"
       THEN /\ session' = NoSession
            /\ last' = [Returned("session") EXCEPT
                          !.req = session.req, !.env = session.env,
                          !.hit = session.hit, !.err = TRUE]
            /\ ended' = [ended EXCEPT !.errors = @ + 1]
            /\ UNCHANGED << prepared_text_cache, text_preparations, next_id, origin,
                            evicted >>
       ELSE LET measurement == measure_text(session.req.text, session.req.size)
                prepared == NewPreparedText(next_id, measurement)
            IN
            /\ prepared_text_cache' =
                 MapInsert("store", prepared_text_cache, session.cache_key,
                           HashKey(session.cache_key), prepared, seeds.store)
            /\ text_preparations' = text_preparations + 1
            /\ next_id' = next_id + 1
            /\ session' = [session EXCEPT !.pc = "open", !.env = "ok",
                                           !.prepared_text = prepared]
            /\ last' = [Returned("session") EXCEPT
                          !.req = session.req, !.env = session.env,
                          !.hit = session.hit]
            /\ origin' = [origin EXCEPT ![session.cache_key] = session.req]
            /\ evicted' = [evicted EXCEPT !.store = @ \ {session.cache_key}]
            /\ ended' = ended
    /\ UNCHANGED << encoding_pool, heap, performance_monitor, cache_hits, cache_misses,
                    encoding_reuses, seeds, calls, emits, warmup, warm_emits,
                    first_emit, live_requested, pool_inserts, kept >>

\* the caller drops the pending future at one of its suspension points
session_cancelled ==
    /\ session.pc \in {"new", "measure"}
    /\ session.env = "ok"
    /\ failure_budget
    /\ session' = NoSession
    /\ ended' = [ended EXCEPT !.abandoned = @ + 1]
    /\ last' = [Returned("cancelled") EXCEPT
                  !.req = session.req, !.env = session.env, !.hit = session.hit]
    /\ UNCHANGED << prepared_text_cache, encoding_pool, heap, performance_monitor,
                    stats_vars, seeds, next_id, calls, emits, measure_calls, warmup,
                    first_emit, live_requested, origin, warm_emits, pool_inserts,
                    evicted, kept >>

\* the caller drops the session: the borrow of the cache ends
session_dropped ==
    /\ session.pc = "open"
    /\ session' = NoSession
    /\ UNCHANGED << prepared_text_cache, encoding_pool, heap, performance_monitor,
                    stats_vars, seeds, next_id, last, calls, emits, measure_calls,
                    warmup, history_vars >>

\* ------------------------------------------------------------- the session

\* an Arc::make_mut that never clones
ArcMakeMutInPlace(strong_count) == FALSE

\* Arc::make_mut: the value is mutated where it is when this Arc is the only
\* one, else it is cloned into a new allocation that the Arc then points to
ArcMakeMutClones(strong_count) == strong_count # 1

\* The heap holds the Encoding of every live Arc<Encoding> but those of the
\* warm pool entries, which no request of the model reaches: they are new.
HeapAt(h, ptr) == IF ptr \in DOMAIN h THEN h[ptr] ELSE EncodingNew

\* the Arcs that point to `ptr`: those of `pool`, the caller's, and `locals`
StrongCount(pool, ptr, locals) ==
    Cardinality({j \in 1..Len(pool) : ~pool[j].run /\ pool[j].val = ptr})
      + (IF last.enc = ptr THEN 1 ELSE 0)
      + (IF kept.ptr = ptr /\ last.enc # ptr THEN 1 ELSE 0) + locals

\* the heap once the Arcs outside `pool` and `held` are gone
Collect(h, pool, held) ==
    [ptr \in (MapOwnValues(pool) \cup {held, kept.ptr}) \cap DOMAIN h |-> h[ptr]]

\* get_encoding_of without the reuse counter
get_encoding_of_uncounted(pool, h, key) ==
    LET encoding_key == HashKey(key)
    IN IF MapHas("pool", pool, encoding_key)
       THEN [ pool |-> pool, heap |-> h, reuses |-> encoding_reuses,
              ptr |-> MapGet("pool", pool, encoding_key), pool_hit |-> TRUE,
              next_id |-> next_id ]
       ELSE [ pool |-> MapInsert("pool", pool, encoding_key, encoding_key, next_id, seeds.pool),
              heap |-> [ptr \in DOMAIN h \cup {next_id} |->
                          IF ptr = next_id THEN EncodingNew ELSE h[ptr]],
              reuses |-> encoding_reuses,
              ptr |-> next_id, pool_hit |-> FALSE,
              next_id |-> next_id + 1 ]

\* get_encoding_of that counts an insertion as a reuse
get_encoding_of_counts_insert(pool, h, key) ==
    LET encoding_key == HashKey(key)
    IN IF MapHas("pool", pool, encoding_key)
       THEN [ pool |-> pool, heap |-> h, reuses |-> encoding_reuses + 1,
              ptr |-> MapGet("pool", pool, encoding_key), pool_hit |-> TRUE,
              next_id |-> next_id ]
       ELSE [ pool |-> MapInsert("pool", pool, encoding_key, encoding_key, next_id, seeds.pool),
              heap |-> [ptr \in DOMAIN h \cup {next_id} |->
                          IF ptr = next_id THEN EncodingNew ELSE h[ptr]],
              reuses |-> encoding_reuses + 1,
              ptr |-> next_id, pool_hit |-> FALSE,
              next_id |-> next_id + 1 ]

\* get_encoding_of that puts a new Encoding in the pool on a reuse too
get_encoding_of_always_new(pool, h, key) ==
    LET encoding_key == HashKey(key)
    IN [ pool |-> MapInsert("pool", pool, encoding_key, encoding_key, next_id, seeds.pool),
         heap |-> [ptr \in DOMAIN h \cup {next_id} |->
                     IF ptr = next_id THEN EncodingNew ELSE h[ptr]],
         reuses |-> IF MapHas("pool", pool, encoding_key)
                    THEN encoding_reuses + 1 ELSE encoding_reuses,
         ptr |-> next_id, pool_hit |-> MapHas("pool", pool, encoding_key),
         next_id |-> next_id + 1 ]

\* lines 360-378 as a function of the state:
\* [pool, heap, reuses, ptr, pool_hit, next_id]
get_encoding_of(pool, h, key) ==
    LET encoding_key == HashKey(key)
    IN IF MapHas("pool", pool, encoding_key)
       THEN [ pool |-> pool, heap |-> h, reuses |-> encoding_reuses + 1,
              ptr |-> MapGet("pool", pool, encoding_key), pool_hit |-> TRUE,
              next_id |-> next_id ]
       ELSE [ pool |-> MapInsert("pool", pool, encoding_key, encoding_key, next_id, seeds.pool),
              heap |-> [ptr \in DOMAIN h \cup {next_id} |->
                          IF ptr = next_id THEN EncodingNew ELSE h[ptr]],
              reuses |-> encoding_reuses,
              ptr |-> next_id, pool_hit |-> FALSE,
              next_id |-> next_id + 1 ]

emit_budget == emits < warm_emits + MaxEmits

get_encoding ==
    LET g == get_encoding_of(encoding_pool, heap, session.cache_key)
    IN
    /\ session.pc = "open"
    /\ emit_budget
    /\ encoding_pool' = g.pool
    /\ encoding_reuses' = g.reuses
    /\ next_id' = g.next_id
    /\ heap' = Collect(g.heap, g.pool, g.ptr)
    /\ last' = [Returned("get_encoding") EXCEPT
                  !.req = session.req, !.enc = g.ptr, !.pooled = g.ptr,
                  !.pool_hit = g.pool_hit, !.reuses_before = encoding_reuses]
    /\ emits' = emits + 1
    /\ pool_inserts' = IF g.pool_hit THEN pool_inserts ELSE pool_inserts + 1
    /\ evicted' = [evicted EXCEPT !.pool = @ \ {session.cache_key}]
    /\ UNCHANGED << prepared_text_cache, performance_monitor, cache_hits, cache_misses,
                    text_preparations, seeds, session, calls, measure_calls, warmup,
                    first_emit, live_requested, origin, warm_emits, ended, kept >>

\* session_style that keeps the stroke mode when the stroke is refused
session_style_stroke_kept(enc, style) ==
    LET stroke == encode_stroke_style(enc, style)
    IN IF style.kind = "Fill" THEN <<encode_fill_style(enc, style.fill), TRUE>>
       ELSE IF stroke[2] THEN <<stroke[1], FALSE>>
       ELSE <<encode_fill_style(stroke[1], "NonZero"), FALSE>>

\* lines 399-412: the style tag of the session's style: <<encoding, is_fill>>
session_style(enc, style) ==
    LET stroke == encode_stroke_style(enc, style)
    IN IF style.kind = "Fill" THEN <<encode_fill_style(enc, style.fill), TRUE>>
       ELSE IF stroke[2] THEN <<stroke[1], FALSE>>
       ELSE <<encode_fill_style(stroke[1], "NonZero"), TRUE>>

\* text_outline with the width and the height swapped
text_outline_transposed(enc, is_fill, measurement) ==
    LET width == measurement.content_height
        height == measurement.content_width
        p0 == encode_path(enc, is_fill)
        p1 == path_move_to(p0, 0, 0)
        p2 == path_line_to(p1, width, 0)
        p3 == path_line_to(p2, width, height)
        p4 == path_line_to(p3, 0, height)
        p5 == path_close(p4)
    IN path_finish(p5, TRUE)

\* lines 415-430: the rectangle of the measurement, through the path
\* encoder: <<encoding, path_segments>>
text_outline(enc, is_fill, measurement) ==
    LET width == measurement.content_width
        height == measurement.content_height
        p0 == encode_path(enc, is_fill)
        p1 == path_move_to(p0, 0, 0)
        p2 == path_line_to(p1, width, 0)
        p3 == path_line_to(p2, width, height)
        p4 == path_line_to(p3, 0, height)
        p5 == path_close(p4)
    IN path_finish(p5, TRUE)

\* emit_into without the reset of an Encoding that got no segment
emit_into_no_final_reset(enc0, style, measurement) ==
    LET styled == session_style(reset(enc0), style)
        fin == text_outline(styled[1], styled[2], measurement)
    IN [ enc |-> fin[1], offsets |-> stream_offsets(fin[1]), is_fill |-> styled[2],
         path_segments |-> fin[2] ]

\* emit_into that reads the stream offsets before that reset
emit_into_offsets_early(enc0, style, measurement) ==
    LET styled == session_style(reset(enc0), style)
        fin == text_outline(styled[1], styled[2], measurement)
        e2 == IF fin[2] = 0 THEN reset(fin[1]) ELSE fin[1]
    IN [ enc |-> e2, offsets |-> stream_offsets(fin[1]), is_fill |-> styled[2],
         path_segments |-> fin[2] ]

\* lines 393-435 on the Encoding `enc0` that make_mut yields:
\* [enc, offsets, is_fill, path_segments]
emit_into(enc0, style, measurement) ==
    LET styled == session_style(reset(enc0), style)
        fin == text_outline(styled[1], styled[2], measurement)
        e2 == IF fin[2] = 0 THEN reset(fin[1]) ELSE fin[1]
    IN [ enc |-> e2, offsets |-> stream_offsets(e2), is_fill |-> styled[2],
         path_segments |-> fin[2] ]

get_text_encoding ==
    LET g == get_encoding_of(encoding_pool, heap, session.cache_key)
        clones == ArcMakeMutClones(StrongCount(g.pool, g.ptr, 1))
        target == IF clones THEN g.next_id ELSE g.ptr
        em == emit_into(HeapAt(g.heap, g.ptr), session.req.style, session.prepared_text.measurement)
        written == [ptr \in DOMAIN g.heap \cup {target} |->
                      IF ptr = target THEN em.enc ELSE g.heap[ptr]]
        r == session.req
    IN
    /\ session.pc = "open"
    /\ emit_budget
    /\ encoding_pool' = g.pool
    /\ encoding_reuses' = g.reuses
    /\ next_id' = IF clones THEN g.next_id + 1 ELSE g.next_id
    /\ heap' = Collect(written, g.pool, target)
    /\ last' = [Returned("get_text_encoding") EXCEPT
                  !.req = r, !.enc = target, !.pooled = g.ptr, !.offsets = em.offsets,
                  !.is_fill = em.is_fill, !.path_segments = em.path_segments,
                  !.pool_hit = g.pool_hit, !.repeat = first_emit[r].some,
                  !.reuses_before = encoding_reuses]
    /\ first_emit' =
         IF first_emit[r].some THEN first_emit
         ELSE [first_emit EXCEPT ![r] = [some |-> TRUE, enc |-> em.enc, offsets |-> em.offsets]]
    /\ live_requested' = live_requested \cup {session.cache_key}
    /\ emits' = emits + 1
    /\ pool_inserts' = IF g.pool_hit THEN pool_inserts ELSE pool_inserts + 1
    /\ evicted' = [evicted EXCEPT !.pool = @ \ {session.cache_key}]
    /\ UNCHANGED << prepared_text_cache, performance_monitor, cache_hits, cache_misses,
                    text_preparations, seeds, session, calls, measure_calls, warmup,
                    warm_emits, origin, ended >>
    /\ kept' = IF kept.ptr = 0
               THEN [ptr |-> target, key |-> session.cache_key, value |-> em.enc]
               ELSE kept

\* ---------------------------------------------------------------- maintain()

\* to_remove_of that trims down to the threshold instead of the keep size
to_remove_of_threshold(which, m, above, keep) ==
    IF MapLen(m) > above THEN TakeKeys(which, m, MapLen(m) - above) ELSE <<>>

\* to_remove_of that trims whenever the map holds more than the keep size
to_remove_of_eager(which, m, above, keep) ==
    IF MapLen(m) > keep THEN TakeKeys(which, m, MapLen(m) - keep) ELSE <<>>

\* to_remove_of that takes the keys from the end of the iteration order
to_remove_of_newest(which, m, above, keep) ==
    IF MapLen(m) > above
    THEN TakeKeys(which, [j \in 1..Len(m) |-> m[Len(m) + 1 - j]], MapLen(m) - keep)
    ELSE <<>>

\* lines 280-288 and 295-302: the keys a trim of the map removes
to_remove_of(which, m, above, keep) ==
    IF MapLen(m) > above THEN TakeKeys(which, m, MapLen(m) - keep) ELSE <<>>

maintain ==
    LET n == MapLen(prepared_text_cache)
        m == MapLen(encoding_pool)
        to_remove == to_remove_of("store", prepared_text_cache, PreparedTrimAbove, PreparedKeep)
        pool_to_remove == to_remove_of("pool", encoding_pool, PoolTrimAbove, PoolKeep)
        trimmed == {k \in RequestKeys : \/ MapHas("store", to_remove, k)
                                         \/ MapHas("pool", pool_to_remove, HashKey(k))}
    IN
    /\ session.pc = "none"
    /\ performance_monitor < MaxMaintain
    /\ performance_monitor' = performance_monitor + 1
    /\ prepared_text_cache' = MapRemoveAll("store", prepared_text_cache, to_remove)
    /\ encoding_pool' = MapRemoveAll("pool", encoding_pool, pool_to_remove)
    /\ heap' = Collect(heap, encoding_pool', last.enc)
    /\ last' = [Returned("maintain") EXCEPT !.store_before = n, !.pool_before = m]
    /\ live_requested' = live_requested \ trimmed
    /\ origin' = [k \in RequestKeys |->
                    IF MapHas("store", to_remove, k) THEN NoRequest ELSE origin[k]]
    /\ evicted' =
         [ store |-> evicted.store \cup {k \in RequestKeys : MapHas("store", to_remove, k)},
           pool |-> evicted.pool
                      \cup {k \in RequestKeys : MapHas("pool", pool_to_remove, HashKey(k))} ]
    /\ UNCHANGED << stats_vars, seeds, session, next_id, calls, emits, measure_calls,
                    warmup, warm_emits, first_emit, pool_inserts, ended, kept >>

\* ------------------------------------------------------------------- stats()

\* stats that clears the counters it has read
stats_resetting ==
    /\ session.pc = "none"
    /\ last' = [Returned("stats") EXCEPT
                  !.value = <<cache_hits, cache_misses, text_preparations, encoding_reuses>>]
    /\ cache_hits' = 0
    /\ cache_misses' = 0
    /\ text_preparations' = 0
    /\ encoding_reuses' = 0
    /\ UNCHANGED << prepared_text_cache, encoding_pool, heap, performance_monitor,
                    seeds, session, next_id, calls, emits, measure_calls,
                    warmup, history_vars >>

\* lines 312-319
stats ==
    /\ session.pc = "none"
    /\ last' = [Returned("stats") EXCEPT
                  !.value = <<cache_hits, cache_misses, text_preparations, encoding_reuses>>]
    /\ UNCHANGED << prepared_text_cache, encoding_pool, heap, performance_monitor,
                    stats_vars, seeds, session, next_id, calls, emits, measure_calls,
                    warmup, history_vars >>

\* ------------------------------------------------------------ specification

Next ==
    \/ \E r \in Requests, env \in EnvOutcomes : session_hit(r, env)
    \/ \E r \in Requests, env \in EnvOutcomes : session_miss(r, env)
    \/ text_system_new
    \/ text_measured
    \/ session_cancelled
    \/ session_dropped
    \/ get_encoding
    \/ get_text_encoding
    \/ maintain
    \/ stats

Spec == Init /\ [][Next]_vars

\* ------------------------------------------------------------------- claims

\* C1: in every reachable state, hits + misses equals the number of
\* session() calls made so far, whether they returned a session, failed with
\* a measurement error, are still pending or were abandoned.
C1_CounterConsistency == cache_hits + cache_misses = calls

\* a call has failed after another one hit
C1_Witness ==
    /\ last.op = "session"
    /\ last.err
    /\ cache_hits > 0
    /\ calls >= warmup + 2

\* C2: when maintain() is called with more than 1000 entries in the
\* prepared-text store, the store holds at most 800 entries when it returns;
\* when it is called with more than 500 entries in the encoding pool, the pool
\* holds at most 400 entries when it returns.
C2_CapacityEnforced ==
    last.op = "maintain" =>
        /\ last.store_before > PreparedTrimAbove => MapLen(prepared_text_cache) <= PreparedKeep
        /\ last.pool_before > PoolTrimAbove => MapLen(encoding_pool) <= PoolKeep

\* maintain() has returned from a call that found both maps above their
\* thresholds
C2_Witness ==
    /\ last.op = "maintain"
    /\ last.store_before > PreparedTrimAbove
    /\ last.pool_before > PoolTrimAbove

\* the session that made the last get_text_encoding call is still open
JustEmitted == last.op = "get_text_encoding" /\ session.pc = "open"

\* the Encoding the caller holds
ReturnedEncoding == HeapAt(heap, last.enc)

\* C3 as stated: for every key that has been requested once (opened and
\* emitted), a second request of the key (session then get_text_encoding)
\* increments reuses and does not increment preparations.
C3_ReuseAccountingAlways ==
    (JustEmitted /\ session.was_requested) =>
        /\ encoding_reuses = last.reuses_before + 1
        /\ text_preparations = session.preparations_at_call

\* C3 as amended: the same, for a key of which maintain() has removed neither
\* the prepared-text entry nor the pool entry since the earlier request.
C3_ReuseAccounting ==
    (JustEmitted /\ session.was_live) =>
        /\ encoding_reuses = last.reuses_before + 1
        /\ text_preparations = session.preparations_at_call

\* a key requested before is requested again, after a maintain() call that
\* left its entries in place
C3_Witness ==
    /\ JustEmitted
    /\ session.was_live
    /\ performance_monitor > 0

\* C4: two session + get_text_encoding runs with identical (font, size,
\* style, text) on the same cache return encodings with identical path
\* geometry and identical stream offsets, whatever happens between them.
C4_Determinism ==
    (JustEmitted /\ last.repeat) =>
        /\ ReturnedEncoding.path_tags = first_emit[last.req].enc.path_tags
        /\ ReturnedEncoding.path_data = first_emit[last.req].enc.path_data
        /\ last.offsets = first_emit[last.req].offsets

\* C5: the StreamOffsets that get_text_encoding returns are the lengths of
\* the streams of the Encoding it returns, which holds what this call wrote
\* and nothing of an earlier use of the pooled Encoding.
C5_OffsetsMatch ==
    JustEmitted =>
        /\ last.offsets = stream_offsets(ReturnedEncoding)
        /\ ReturnedEncoding =
             emit_into(EncodingNew, last.req.style, session.prepared_text.measurement).enc

\* an emission with content, for a key whose pool entry was there already
C5_Witness ==
    /\ JustEmitted
    /\ last.pool_hit
    /\ last.offsets.path_data > 0

\* C6: session() fails exactly when the key is not in the store and the text
\* system fails to be constructed or to measure; a call that finds the key
\* does not invoke the measurement; get_encoding, get_text_encoding,
\* maintain and stats return no error.
C6_OnlyMissesFail ==
    /\ last.op = "session" => (last.err <=> (~last.hit /\ last.env # "ok"))
    /\ (last.op = "session" /\ last.hit /\ session.pc = "open") =>
          measure_calls = session.measure_calls_at_call
    /\ last.op \in {"get_encoding", "get_text_encoding", "maintain", "stats"} => ~last.err

\* a call has found its key while the text system was failing
C6_Witness ==
    /\ last.op = "session"
    /\ last.hit
    /\ last.env # "ok"
    /\ ~last.err

ZeroWidth == session.prepared_text.measurement.content_width = 0

ZeroHeight == session.prepared_text.measurement.content_height = 0

EmptyReturned ==
    /\ last.path_segments = 0
    /\ ReturnedEncoding = EncodingNew
    /\ last.offsets = NoOffsets

C8_StrokeFallback ==
    (JustEmitted /\ last.req.style.kind = "Stroke") =>
        IF encode_stroke_style(EncodingNew, last.req.style)[2]
        THEN ~last.is_fill
        ELSE /\ last.is_fill
             /\ ReturnedEncoding =
                  emit_into(EncodingNew, FillNonZero, session.prepared_text.measurement).enc
             /\ last.path_segments > 0 =>
                  ReturnedEncoding.styles = <<[kind |-> "Fill", fill |-> "NonZero", width |-> 0]>>

\* an emission with content for a stroke the encoder refuses
C8_Witness ==
    /\ JustEmitted
    /\ last.req.style.kind = "Stroke"
    /\ ~StrokeRepresentable(last.req.style)
    /\ last.path_segments > 0

\* requests that differ at most in the parameters of their Stroke style
SameKeyInputs(r1, r2) ==
    /\ r1.text = r2.text
    /\ r1.font = r2.font
    /\ r1.size = r2.size
    /\ r1.style.kind = r2.style.kind

\* C9: requests with identical text, font bytes, size and style variant get
\* equal keys; a Stroke request that differs from the one that filled the
\* store entry only in its stroke parameters is a hit on that entry.
C9_KeyDerivation ==
    /\ \A r1, r2 \in Requests : SameKeyInputs(r1, r2) => KeyOf(r1) = KeyOf(r2)
    /\ ( /\ last.op = "session"
         /\ ~last.err
         /\ session.origin_at_call \in Requests
         /\ SameKeyInputs(session.origin_at_call, session.req) ) =>
           /\ last.hit
           /\ cache_hits > 0
           /\ text_preparations = session.preparations_at_call
           /\ session.prepared_text =
                MapGet("store", prepared_text_cache, KeyOf(session.origin_at_call))

\* a Stroke request has been opened on the entry of a Stroke request with
\* other stroke parameters
C9_Witness ==
    /\ last.op = "session"
    /\ session.pc = "open"
    /\ session.req.style.kind = "Stroke"
    /\ session.origin_at_call \in Requests
    /\ session.origin_at_call.style # session.req.style
    /\ session.hit

\* C10: right after get_text_encoding returns, the Encoding stored in the
\* pool under the session's key is the instance returned to the caller, with
\* the content returned to the caller.
C10_InPlaceReuse ==
    JustEmitted =>
        /\ MapHas("pool", encoding_pool, HashKey(session.cache_key))
        /\ MapGet("pool", encoding_pool, HashKey(session.cache_key)) = last.enc
        /\ HeapAt(heap, MapGet("pool", encoding_pool, HashKey(session.cache_key)))
             = ReturnedEncoding

\* a step in which a session() call looks its key up
SessionCalled == calls' = calls + 1

\* C11: a session() call that finds its key in the store increments hits by
\* 1, returns a session bound to the record stored under the key, and leaves
\* misses, preparations, reuses, the store and the pool as they are.
C11_HitPathFrame ==
    [][ (SessionCalled /\ MapHas("store", prepared_text_cache, session'.cache_key)) =>
          /\ cache_hits' = cache_hits + 1
          /\ session'.pc = "open"
          /\ last'.op = "session"
          /\ ~last'.err
          /\ session'.prepared_text =
               MapGet("store", prepared_text_cache, session'.cache_key)
          /\ UNCHANGED << cache_misses, text_preparations, encoding_reuses,
                          prepared_text_cache, encoding_pool >> ]_vars

\* a key has been hit for the second time
C11_Witness ==
    /\ last.op = "session"
    /\ session.pc = "open"
    /\ session.hit
    /\ cache_hits >= 2

\* the map written with adjacent runs of warm entries joined: two maps with
\* the same entries in the same order are written the same
RECURSIVE Joined(_, _)
Joined(which, m) ==
    IF Len(m) < 2 THEN m
    ELSE IF m[1].run /\ m[2].run /\ m[1].hi + 1 = m[2].lo
    THEN Joined(which, <<RunItem(which, m[1].lo, m[2].hi)>> \o SubSeq(m, 3, Len(m)))
    ELSE <<m[1]>> \o Joined(which, Tail(m))

\* the map without the entry of `key`
Without(which, m, key) == Joined(which, MapRemoveItem(which, m, EntryItem(key, 0, 0)))

\* the bounds of the record are the measured width and height: exactly, or
\* as `as i32` converts them
BoundsOf(record, measurement, exact) ==
    /\ record.text_area_config.position = <<0, 0>>
    /\ record.text_area_config.bounds.left = 0
    /\ record.text_area_config.bounds.top = 0
    /\ IF exact
       THEN /\ record.text_area_config.bounds.right * 1000 = measurement.content_width
            /\ record.text_area_config.bounds.bottom * 1000 = measurement.content_height
       ELSE /\ record.text_area_config.bounds.right = F32AsI32(measurement.content_width)
            /\ record.text_area_config.bounds.bottom = F32AsI32(measurement.content_height)

\* the steps of a session() call that does not find its key: the lookup, the
\* construction of the text system, the measurement with the insertion
MissPathStep(exact) ==
    /\ (SessionCalled /\ ~MapHas("store", prepared_text_cache, session'.cache_key)) =>
          /\ cache_misses' = cache_misses + 1
          /\ session'.pc = "new"
          /\ UNCHANGED << cache_hits, text_preparations, encoding_reuses, measure_calls,
                          prepared_text_cache, encoding_pool >>
    /\ (session.pc = "new" /\ session'.pc = "measure") =>
          UNCHANGED << stats_vars, measure_calls, prepared_text_cache, encoding_pool >>
    /\ (session.pc = "measure" /\ session'.pc = "open") =>
          LET key == session.cache_key
              measurement == measure_text(session.req.text, session.req.size)
          IN /\ measure_calls' = measure_calls + 1
             /\ text_preparations' = text_preparations + 1
             /\ UNCHANGED << cache_hits, cache_misses, encoding_reuses, encoding_pool >>
             /\ MapHas("store", prepared_text_cache', key)
             /\ MapGet("store", prepared_text_cache', key).measurement = measurement
             /\ BoundsOf(MapGet("store", prepared_text_cache', key), measurement, exact)
             /\ MapLen(prepared_text_cache') = MapLen(prepared_text_cache) + 1
             /\ Without("store", prepared_text_cache', key) = Joined("store", prepared_text_cache)
             /\ session'.prepared_text = MapGet("store", prepared_text_cache', key)
             /\ session'.cache_key = key
             /\ last'.op = "session"
             /\ ~last'.err

\* C12 as stated: a session() call that does not find its key and whose
\* measurement succeeds increments misses by 1 and preparations by 1, invokes
\* measure_text once, inserts under the key a record that holds the measurement,
\* anchored at (0,0) with bounds equal to the measured content width and
\* height, leaves the other store entries and the pool as they are, and returns
\* a session bound to that record.
C12_MissPathExactBounds == [][MissPathStep(TRUE)]_vars

\* C12 as amended: the same, with bounds equal to the measured content width
\* and height converted to i32, that is without their fraction.
C12_MissPath == [][MissPathStep(FALSE)]_vars

\* a call has inserted the record of a measurement with a fraction
C12_Witness ==
    /\ last.op = "session"
    /\ session.pc = "open"
    /\ ~session.hit
    /\ session.prepared_text.measurement.content_width % 1000 # 0
    /\ MapGet("store", prepared_text_cache, session.cache_key) = session.prepared_text

\* a step in which get_encoding runs, by itself or within get_text_encoding
PoolLookedUp == emits' = emits + 1

\* C13: every get_encoding call either finds the session's key in the pool,
\* increments reuses by 1 and returns the pooled Encoding without changing the
\* pool, or inserts a new empty Encoding under the key, returns it and leaves
\* reuses as it is; the calls number reuses plus the pool insertions, and a
\* second call in a row for the same key is a reuse.
C13_PoolLookup ==
    [][ /\ emits = encoding_reuses + pool_inserts
        /\ emits' = encoding_reuses' + pool_inserts'
        /\ PoolLookedUp =>
              LET encoding_key == HashKey(session.cache_key)
              IN /\ IF MapHas("pool", encoding_pool, encoding_key)
                    THEN /\ encoding_reuses' = encoding_reuses + 1
                         /\ encoding_pool' = encoding_pool
                         /\ pool_inserts' = pool_inserts
                         /\ last'.pooled = MapGet("pool", encoding_pool, encoding_key)
                    ELSE /\ encoding_reuses' = encoding_reuses
                         /\ pool_inserts' = pool_inserts + 1
                         /\ MapLen(encoding_pool') = MapLen(encoding_pool) + 1
                         /\ Without("pool", encoding_pool', encoding_key)
                              = Joined("pool", encoding_pool)
                         /\ last'.pooled = MapGet("pool", encoding_pool', encoding_key)
                         /\ last'.pooled \notin DOMAIN heap
                         /\ HeapAt(heap', last'.pooled) = EncodingNew
                 /\ last'.op = "get_encoding" => last'.enc = last'.pooled
                 /\ last.op \in {"get_encoding", "get_text_encoding"} =>
                       encoding_reuses' = encoding_reuses + 1 ]_vars

\* get_encoding has been called twice in a row on a key that was not in the
\* pool: an insertion, then a reuse
C13_Witness ==
    /\ last.op = "get_encoding"
    /\ last.pool_hit
    /\ emits = warm_emits + 2
    /\ pool_inserts = warm_emits + 1
    /\ encoding_reuses = 1

\* a step in which maintain() runs
Maintained == performance_monitor' # performance_monitor

\* the map without the first `k` entries of its iteration order
RECURSIVE DropFirst(_, _, _)
DropFirst(which, m, k) ==
    IF k <= 0 \/ m = <<>> THEN m
    ELSE IF ItemLen(Head(m)) <= k THEN DropFirst(which, Tail(m), k - ItemLen(Head(m)))
    ELSE <<RunItem(which, Head(m).lo + k, Head(m).hi)>> \o Tail(m)

C15_MaintainFrame ==
    [][ Maintained =>
          /\ performance_monitor' = performance_monitor + 1
          /\ UNCHANGED stats_vars
          /\ MapLen(prepared_text_cache) <= PreparedTrimAbove =>
                prepared_text_cache' = prepared_text_cache
          /\ MapLen(encoding_pool) <= PoolTrimAbove =>
                encoding_pool' = encoding_pool ]_vars

\* maintain() has trimmed the pool and left a store of more than 800 entries
\* as it was
C15_Witness ==
    /\ last.op = "maintain"
    /\ performance_monitor = 1
    /\ last.pool_before > PoolTrimAbove
    /\ last.store_before > PreparedKeep
    /\ last.store_before <= PreparedTrimAbove
    /\ MapLen(prepared_text_cache) = last.store_before
    /\ MapLen(encoding_pool) = PoolKeep

\* the other way round: the store is trimmed, a pool of 500 entries stays
StoreAloneTrimmed ==
    /\ last.op = "maintain"
    /\ last.store_before > PreparedTrimAbove
    /\ last.pool_before = PoolTrimAbove
    /\ MapLen(encoding_pool) = PoolTrimAbove

\* C16: after maintain() has removed a key from the store, the next session()
\* call for the key counts a miss and no hit, measures again and, when the
\* measurement succeeds, inserts a record under the key, increments
\* preparations and returns a session; after maintain() has removed the pool
\* entry of a key, the next emission for the key inserts a new pool entry and
\* does not increment reuses.
C16_EvictionIsMiss ==
    [][ /\ (SessionCalled /\ session'.cache_key \in evicted.store) =>
              /\ cache_misses' = cache_misses + 1
              /\ cache_hits' = cache_hits
              /\ session'.pc = "new"
              /\ last'.op = "pending"
        /\ ( /\ session.pc = "new"
             /\ session.cache_key \in evicted.store
             /\ session.env = "ok"
             /\ session'.pc # "none" ) =>
              session'.pc = "measure"
        /\ ( /\ session.pc = "measure"
             /\ session.cache_key \in evicted.store
             /\ session.env = "ok"
             /\ session'.pc # "none" ) =>
              /\ measure_calls' = measure_calls + 1
              /\ text_preparations' = text_preparations + 1
              /\ MapHas("store", prepared_text_cache', session.cache_key)
              /\ session'.pc = "open"
              /\ session'.prepared_text =
                   MapGet("store", prepared_text_cache', session.cache_key)
              /\ last'.op = "session"
              /\ ~last'.err
        /\ (PoolLookedUp /\ session.cache_key \in evicted.pool) =>
              /\ encoding_reuses' = encoding_reuses
              /\ ~MapHas("pool", encoding_pool, HashKey(session.cache_key))
              /\ MapHas("pool", encoding_pool', HashKey(session.cache_key))
              /\ MapLen(encoding_pool') = MapLen(encoding_pool) + 1 ]_vars

\* a request that was emitted before, and whose store entry and pool entry
\* maintain() removed, has been opened by a miss and emitted into a new pool
\* entry
C16_Witness ==
    /\ JustEmitted
    /\ last.repeat
    /\ ~last.pool_hit
    /\ ~session.hit
    /\ performance_monitor > 0
    /\ evicted.store = {}
    /\ evicted.pool = {}

\* a session() call is between its lookup, which missed, and its insert
LookedUpNotInserted == session.pc \in {"new", "measure"}

\* the entries the store holds for the key
EntriesOf(store, key) == {j \in 1..Len(store) : ItemHas("store", store[j], key)}

RectanglePath(w, h) ==
    [ data |-> <<0, 0, w, 0, w, h, 0, h, 0, 0>>,
      segments |-> <<"LINE_TO", "LINE_TO", "LINE_TO", "LINE_TO">> ]

\* C18: for a session whose measurement is (w, h) with w > 0 and h > 0,
\* get_text_encoding emits one closed path: move-to (0,0), line-to (w,0),
\* line-to (w,h), line-to (0,h), close, with w and h the content width and
\* height of the session's PreparedText, and returns non-zero stream offsets.
C18_PlaceholderGeometry ==
    LET w == session.prepared_text.measurement.content_width
        h == session.prepared_text.measurement.content_height
    IN (JustEmitted /\ w > 0 /\ h > 0) =>
         /\ ReturnedEncoding.path_data = RectanglePath(w, h).data
         /\ SelectSeq(ReturnedEncoding.path_tags, LAMBDA t : t = "LINE_TO")
              = RectanglePath(w, h).segments
         /\ ReturnedEncoding.path_tags[Len(ReturnedEncoding.path_tags)] = "PATH"
         /\ ReturnedEncoding.n_paths = 1
         /\ ReturnedEncoding.n_path_segments = 4
         /\ last.path_segments = 4
         /\ last.offsets.path_tags > 0
         /\ last.offsets.path_data > 0
         /\ last.offsets.styles > 0

\* a stroked rectangle has been emitted for a measurement wider than high
C18_Witness ==
    /\ JustEmitted
    /\ ~last.is_fill
    /\ session.prepared_text.measurement.content_width
         > session.prepared_text.measurement.content_height
    /\ session.prepared_text.measurement.content_height > 0
    /\ last.path_segments = 4

\* every entry of `after` is an entry of `before` with the same record,
\* but for the entry of `inserted`
Kept(after, before, inserted) ==
    \A j \in 1..Len(after) :
      IF after[j].run
      THEN \E i \in 1..Len(before) :
             before[i].run /\ before[i].lo <= after[j].lo /\ after[j].hi <= before[i].hi
      ELSE \/ after[j].key = inserted
           \/ \E i \in 1..Len(before) :
                ~before[i].run /\ before[i].key = after[j].key /\ before[i].val = after[j].val

\* the record the store holds for the key is the one the request that filled
\* the entry got from its measurement
AsInserted(store, filled_by, key) ==
    (filled_by[key] # NoRequest) =>
        /\ MapHas("store", store, key)
        /\ MapGet("store", store, key).measurement
             = measure_text(filled_by[key].text, filled_by[key].size)

\* C19: the record stored under a key is not modified from its insertion
\* until maintain() removes the key; every session that hits the key is bound
\* to that record and sees its measurement; no step, get_text_encoding and
\* maintain() included, changes a record that stays in the store, and an
\* insertion is made only under a key that has no record.
C19_PreparedTextImmutable ==
    [][ /\ Kept(prepared_text_cache', prepared_text_cache,
                IF session.pc = "measure" THEN session.cache_key ELSE KeyOf(NoRequest))
        /\ session.pc = "measure" => ~MapHas("store", prepared_text_cache, session.cache_key)
        /\ \A k \in RequestKeys : AsInserted(prepared_text_cache', origin', k)
        /\ (SessionCalled /\ MapHas("store", prepared_text_cache, session'.cache_key)) =>
              session'.prepared_text =
                MapGet("store", prepared_text_cache, session'.cache_key)
        /\ session'.pc = "open" =>
              /\ MapHas("store", prepared_text_cache', session'.cache_key)
              /\ session'.prepared_text =
                   MapGet("store", prepared_text_cache', session'.cache_key)
              /\ session.pc = "open" => session'.prepared_text = session.prepared_text ]_vars

\* after an emission and a maintain() call that kept the key, a session of
\* another request has hit the record and is bound to it
C19_Witness ==
    /\ last.op = "session"
    /\ session.pc = "open"
    /\ session.hit
    /\ session.origin_at_call # session.req
    /\ performance_monitor > 0
    /\ first_emit[session.origin_at_call].some
    /\ session.prepared_text.measurement
         = measure_text(session.origin_at_call.text, session.origin_at_call.size)

\* the counter stays, or goes up by one
SameOrNext(before, after) == after = before \/ after = before + 1

\* C20: a cache that has just been constructed has hits, misses,
\* preparations and reuses at 0; no step of session(), get_encoding,
\* get_text_encoding, maintain() or stats() lowers or resets one of them, and
\* each step, and each whole session() call, raises each of them by at most 1.
C20_StatsMonotone ==
    /\ (calls = 0 /\ emits = 0) =>
          <<cache_hits, cache_misses, text_preparations, encoding_reuses>> = <<0, 0, 0, 0>>
    /\ [][ /\ SameOrNext(cache_hits, cache_hits')
           /\ SameOrNext(cache_misses, cache_misses')
           /\ SameOrNext(text_preparations, text_preparations')
           /\ SameOrNext(encoding_reuses, encoding_reuses')
           /\ session'.pc # "none" =>
                 SameOrNext(session'.preparations_at_call, text_preparations')
           /\ last'.op = "stats" =>
                 last'.value = <<cache_hits', cache_misses', text_preparations',
                                 encoding_reuses'>> ]_vars

\* stats() has read one hit, one miss, one preparation and one reuse from a
\* cache that started empty
C20_Witness ==
    /\ last.op = "stats"
    /\ warmup = 0
    /\ last.value = <<1, 1, 1, 1>>
    /\ <<cache_hits, cache_misses, text_preparations, encoding_reuses>> = <<1, 1, 1, 1>>

\* a step in which a pending session() call returns an error
SessionFailed ==
    /\ session.pc \in {"new", "measure"}
    /\ last'.op = "session"
    /\ last'.err

\* C21: when session() fails with a measurement error, no entry of the store
\* has been inserted or changed and the pool is as it was; hits, preparations
\* and reuses are as they were at the call and misses is 1 higher; the
\* measurement is not tried again, and the next session() call for the key is
\* again a miss.
C21_FailedOpenFrame ==
    [][ /\ (SessionCalled /\ session'.pc = "new") =>
              UNCHANGED << prepared_text_cache, encoding_pool >>
        /\ (LookedUpNotInserted /\ session'.pc # "open") =>
              UNCHANGED << prepared_text_cache, encoding_pool, stats_vars >>
        /\ SessionFailed =>
              /\ session'.pc = "none"
              /\ cache_misses' = session.misses_at_call + 1
              /\ cache_hits' = session.hits_at_call
              /\ text_preparations' = session.preparations_at_call
              /\ encoding_reuses' = session.reuses_at_call
              /\ ~MapHas("store", prepared_text_cache', session.cache_key)
              /\ measure_calls' =
                   session.measure_calls_at_call
                     + (IF session.env = "measure_fails" THEN 1 ELSE 0)
        /\ ( /\ SessionCalled
             /\ last.op = "session"
             /\ last.err
             /\ KeyOf(last.req) = session'.cache_key ) =>
              /\ cache_misses' = cache_misses + 1
              /\ cache_hits' = cache_hits
              /\ session'.pc = "new" ]_vars

\* the call that followed a failed call for the same key has missed, measured
\* and returned a session
C21_Witness ==
    /\ last.op = "session"
    /\ session.pc = "open"
    /\ session.after_failure
    /\ ~session.hit
    /\ failed_calls = 1
    /\ cache_misses = text_preparations + 1

\* the session() call that has looked its key up and not returned yet
Pending == IF LookedUpNotInserted THEN 1 ELSE 0

\* C22 as stated: preparations <= misses; preparations is misses minus the
\* session() calls that failed or are still waiting for the text system; the
\* store never holds more entries than preparations.
C22_PreparationsExact ==
    /\ text_preparations <= cache_misses
    /\ text_preparations = cache_misses - ended.errors - Pending
    /\ MapLen(prepared_text_cache) <= text_preparations

\* C22 as amended: the same, with the session() calls whose future the
\* caller dropped while it was pending subtracted as well.
C22_Preparations ==
    /\ text_preparations <= cache_misses
    /\ text_preparations = cache_misses - ended.errors - ended.abandoned - Pending
    /\ MapLen(prepared_text_cache) <= text_preparations

\* a call was abandoned, another one inserted its record, and maintain() has
\* trimmed the store
C22_Witness ==
    /\ ended.abandoned = 1
    /\ text_preparations > warmup
    /\ text_preparations < cache_misses
    /\ last.op = "maintain"
    /\ MapLen(prepared_text_cache) < text_preparations



\* C23: the pool keeps its own Arc to every pooled Encoding, so get_text_encoding
\* writes into a private copy: the Arc it returns is a new allocation that is
\* not the pool's; an Encoding that one get_text_encoding call returned and the
\* caller kept holds the value it was returned with after every later
\* get_text_encoding (same key or another) and after maintain(); and every
\* Encoding stored in the pool is empty in every reachable state.
C23_ReturnedIsolated ==
    /\ \A ptr \in MapOwnValues(encoding_pool) : HeapAt(heap, ptr) = EncodingNew
    /\ JustEmitted =>
          /\ last.enc # last.pooled
          /\ last.enc \notin MapOwnValues(encoding_pool)
    /\ kept.ptr # 0 =>
          /\ kept.ptr \in DOMAIN heap
          /\ heap[kept.ptr] = kept.value
          /\ kept.ptr \notin MapOwnValues(encoding_pool)

\* a later get_text_encoding for the key of the kept Encoding reused the pooled
\* Encoding and returned other content than the kept one holds
C23_Witness ==
    /\ JustEmitted
    /\ last.pool_hit
    /\ kept.ptr # 0
    /\ kept.ptr # last.enc
    /\ kept.key = session.cache_key
    /\ kept.value # EncodingNew
    /\ ReturnedEncoding # kept.value
    /\ heap[kept.ptr] = kept.value
====
